---- MODULE Spec2Model ----
(***************************************************************************)
(* Model of config.py of the KOReader Sync calibre plugin: the COLUMNS     *)
(* registry, the persisted CONFIG, the column dropdowns built by           *)
(* CustomColumnsLayout / CustomColumnComboBox, and ConfigWidget's          *)
(* save_settings.                                                          *)
(***************************************************************************)
EXTENDS Integers, Sequences, FiniteSets, TLC

VARIABLES
    custom_columns,  \* library_view.model().custom_columns: key -> column
    CONFIG,          \* the entries stored in the JSONConfig (without defaults)
    COLUMNS,         \* the module-level registry, a list of dicts
    combos,          \* the CustomColumnComboBox objects: editor -> row -> combo
    status,          \* editor -> "open" | "closed" (ConfigWidget instances)
    raised,          \* TRUE once a handler ended in an exception
    saver,           \* the ConfigWidget the last save_settings ran on (0: none)
    saved,           \* the keys the registry's controls showed at that save
    nSelects,        \* user selections made so far
    nHostChanges,    \* host column changes made so far
    fresh,           \* the editor the last step constructed (0: another step)
    nSaves,          \* save_settings calls made so far
    value,           \* the sidecar's percent_finished handed to a transform
    stored           \* what the transform returned (-1: not applied yet)

vars == <<custom_columns, CONFIG, COLUMNS, combos, status, raised, saver,
          saved, fresh, nSelects, nHostChanges, nSaves, value, stored>>

-----------------------------------------------------------------------------
(* Bounds *)

MaxEditors == 2
MaxSelects == 1
MaxHostChanges == 2
MaxSaves == 1
MaxDecimals == 3

-----------------------------------------------------------------------------
(* The host: custom columns and the built-in rating header *)

\* Host column keys the model draws from, in the order Python's sorted()
\* gives them ('#' sorts before 'r').
KeyOrder == <<"#a", "#b", "rating">>

Keys == {KeyOrder[i] : i \in 1..Len(KeyOrder)}

Rank(k) == CHOOSE i \in 1..Len(KeyOrder) : KeyOrder[i] = k

\* Display name of the host column with key k.
HostName(k) == CASE k = "#a" -> "Alpha"
                 [] k = "#b" -> "Beta"
                 [] OTHER -> "Custom"

ColumnTypes == {"comments", "datetime", "float", "int", "rating", "text"}

\* Data types a host custom column can have: the six the plugin asks for and
\* one it never asks for.
HostDatatypes == ColumnTypes \cup {"bool"}

HostColumn(k, t, m) == [name |-> HostName(k), datatype |-> t, is_multiple |-> m]

\* model().orig_headers
orig_headers == [rating |-> "Rating"]

-----------------------------------------------------------------------------
(* The registry as defined at module load *)

COLUMNS_AtLoad == <<
    [name |-> "column_percent_read",
     label |-> "Percent read column (float):",
     tooltip |-> "A Floating point numbers column to store the current percent read, with Format for numbers set to {:.0%}.",
     type |-> "float",
     sidecar_property |-> <<"percent_finished">>,
     transform |-> "float"],
    [name |-> "column_percent_read_int",
     label |-> "Percent read column (int):",
     tooltip |-> "An Integers column to store the current percent read.",
     type |-> "int",
     sidecar_property |-> <<"percent_finished">>,
     transform |-> "floor_times_100"],
    [name |-> "column_last_read_location",
     label |-> "Last read location column:",
     tooltip |-> "A regular Text column to store the location you last stopped reading at.",
     type |-> "text",
     sidecar_property |-> <<"last_xpointer">>],
    [name |-> "column_rating",
     label |-> "Rating column:",
     tooltip |-> "A Rating column to store your rating of the book, as entered on the book's status page.",
     type |-> "rating",
     sidecar_property |-> <<"summary", "rating">>,
     transform |-> "times_2"],
    [name |-> "column_review",
     label |-> "Review column:",
     tooltip |-> "A Long text column to store your review of the book, as entered on the book's status page.",
     type |-> "comments",
     sidecar_property |-> <<"summary", "note">>],
    [name |-> "column_status",
     label |-> "Reading status column:",
     tooltip |-> "A regular Text column to store the reading status of the book, as entered on the book status page (Finished, Reading, On hold).",
     type |-> "text",
     sidecar_property |-> <<"summary", "status">>],
    [name |-> "column_date_status_modified",
     label |-> "Status modified date column:",
     tooltip |-> "A Date column to store the date on which the book's status was last modified. (This is probably the date on which you marked it as read.)",
     type |-> "datetime",
     sidecar_property |-> <<"summary", "modified">>],
    [name |-> "column_bookmarks",
     label |-> "Bookmarks column",
     tooltip |-> "A Long text column to store your bookmarks.",
     type |-> "comments",
     sidecar_property |-> <<"bookmarks">>,
     transform |-> "clean_bookmarks"],
    [name |-> "column_md5",
     label |-> "MD5 hash column:",
     tooltip |-> "A regular Text column to store the MD5 hash KOReader uses to sync progress to a KOReader Sync Server. (Progress sync in the KOReader app.) This might allow for syncing progress to calibre without having to connect your KOReader device, in the future.",
     type |-> "text",
     sidecar_property |-> <<"partial_md5_checksum">>],
    [name |-> "column_sidecar",
     label |-> "Raw sidecar column:",
     tooltip |-> "A Long text column to store the raw contents of the metadata sidecar, with Interpret this column as set to Plain text.",
     type |-> "comments",
     sidecar_property |-> <<>>,
     transform |-> "json_dumps_indent_2"] >>

Rows == 1..Len(COLUMNS_AtLoad)

FieldNames == {COLUMNS_AtLoad[i].name : i \in Rows}

\* CONFIG.defaults after the loop at module load
CONFIG_defaults == [n \in FieldNames |-> ""]

\* JSONConfig.__getitem__: the stored entry, else the default
ConfigGet(cfg, n) == IF n \in DOMAIN cfg THEN cfg[n] ELSE CONFIG_defaults[n]

\* JSONConfig.__setitem__
ConfigSet(cfg, n, v) == [k \in DOMAIN cfg \cup {n} |-> IF k = n THEN v ELSE cfg[k]]

\* column[attr] = v on a registry dict
SetAttr(column, attr, v) ==
    [a \in DOMAIN column \cup {attr} |-> IF a = attr THEN v ELSE column[a]]

-----------------------------------------------------------------------------
(* CustomColumnsLayout: the available columns per type *)

\* get_custom_columns without the is_multiple test
GetCustomColumnsKeepMultiple(cc, column_types) ==
    [k \in {x \in DOMAIN cc : cc[x].datatype \in column_types} |-> cc[k]]

GetCustomColumns(cc, column_types) ==
    LET keep == {k \in DOMAIN cc :
                    cc[k].datatype \in column_types /\ ~cc[k].is_multiple}
    IN  [k \in keep |-> cc[k]]

\* get_rating_columns returning the custom rating columns only
GetRatingColumnsNoBuiltin(cc) == GetCustomColumns(cc, {"rating"})

GetRatingColumns(cc) ==
    LET rating_columns == GetCustomColumns(cc, {"rating"})
    IN  [k \in DOMAIN rating_columns \cup {"rating"} |->
            IF k = "rating" THEN [name |-> orig_headers["rating"]]
                            ELSE rating_columns[k]]

AvailableColumns(cc) ==
    [t \in ColumnTypes |->
        CASE t = "comments" -> GetCustomColumns(cc, {"comments"})
          [] t = "datetime" -> GetCustomColumns(cc, {"datetime"})
          [] t = "float"    -> GetCustomColumns(cc, {"float"})
          [] t = "int"      -> GetCustomColumns(cc, {"int"})
          [] t = "rating"   -> GetRatingColumns(cc)
          [] t = "text"     -> GetCustomColumns(cc, {"text"})]

-----------------------------------------------------------------------------
(* CustomColumnComboBox *)

RECURSIVE SortedDescending(_)
\* sorted(keys, reverse=True)
SortedDescending(S) ==
    IF S = {} THEN <<>>
    ELSE LET m == CHOOSE k \in S : \A o \in S : Rank(k) >= Rank(o)
         IN  <<m>> \o SortedDescending(S \ {m})

RECURSIVE Sorted(_)
\* sorted(keys): ascending by code point
Sorted(S) ==
    IF S = {} THEN <<>>
    ELSE LET m == CHOOSE k \in S : \A o \in S : Rank(k) <= Rank(o)
         IN  <<m>> \o Sorted(S \ {m})

\* '{} ({})'.format(name, key)
DisplayName(name, key) == name \o " (" \o key \o ")"

RECURSIVE PopulateLoop(_, _, _, _)
\* The for loop of populate_combo over the keys still to visit.
PopulateLoop(keys, custom_columns_, selected_column, c) ==
    IF keys = <<>> THEN c
    ELSE LET key == Head(keys)
             names == Append(c.column_names, key)
             hit == key = selected_column
         IN  PopulateLoop(Tail(keys), custom_columns_, selected_column,
                 [column_names |-> names,
                  items |-> Append(c.items,
                               DisplayName(custom_columns_[key].name, key)),
                  currentIndex |-> IF hit THEN Len(names) - 1
                                          ELSE c.currentIndex])

\* populate_combo that ignores selected_column
PopulateComboNoPreselect(custom_columns_, selected_column) ==
    PopulateLoop(Sorted(DOMAIN custom_columns_), custom_columns_, "",
                 [column_names |-> <<"">>,
                  items |-> <<"do not sync">>,
                  currentIndex |-> 0])

\* populate_combo whose selected_idx starts at the last entry instead of 0
PopulateComboLastFallback(custom_columns_, selected_column) ==
    PopulateLoop(Sorted(DOMAIN custom_columns_), custom_columns_,
                 selected_column,
                 [column_names |-> <<"">>,
                  items |-> <<"do not sync">>,
                  currentIndex |-> Cardinality(DOMAIN custom_columns_)])

\* populate_combo; currentIndex is 0-based as in Qt, and stands for the local
\* selected_idx until setCurrentIndex at the end.
PopulateCombo(custom_columns_, selected_column) ==
    PopulateLoop(Sorted(DOMAIN custom_columns_), custom_columns_,
                 selected_column,
                 [column_names |-> <<"">>,
                  items |-> <<"do not sync">>,
                  currentIndex |-> 0])

GetSelectedColumn(combo) == combo.column_names[combo.currentIndex + 1]

\* The combo a registry dict refers to under 'combo'.
Deref(cbs, ref) == cbs[ref.editor][ref.row]

-----------------------------------------------------------------------------
(* The transform of column_percent_read_int:                               *)
(*     lambda value: math.floor(float(value) * 100)                        *)
(* Python floats are IEEE-754 binary64.  A natural number is a sequence of  *)
(* bits, least significant first; a float is m * 2^e with m of              *)
(* MantissaBits bits (<<>> for 0.0).                                        *)

\* Significand width of a Python float
MantissaBits == 53

RECURSIVE Inc(_)
Inc(b) == IF b = <<>> THEN <<1>>
          ELSE IF Head(b) = 0 THEN <<1>> \o Tail(b)
          ELSE <<0>> \o Inc(Tail(b))

RECURSIVE AddBits(_, _, _)
AddBits(a, b, carry) ==
    IF a = <<>> /\ b = <<>> THEN (IF carry = 1 THEN <<1>> ELSE <<>>)
    ELSE LET x == IF a = <<>> THEN 0 ELSE Head(a)
             y == IF b = <<>> THEN 0 ELSE Head(b)
             t == x + y + carry
         IN  <<t % 2>> \o AddBits(IF a = <<>> THEN a ELSE Tail(a),
                                  IF b = <<>> THEN b ELSE Tail(b), t \div 2)

ShiftLeft(b, k) == [i \in 1..k |-> 0] \o b

ShiftRight(b, k) == IF k >= Len(b) THEN <<>> ELSE SubSeq(b, k + 1, Len(b))

RECURSIVE ToInt(_)
ToInt(b) == IF b = <<>> THEN 0 ELSE Head(b) + 2 * ToInt(Tail(b))

Reverse(q) == [i \in 1..Len(q) |-> q[Len(q) + 1 - i]]

\* Round p * 2^e (plus a nonzero tail below p when sticky) to the nearest
\* float, ties to even.  p has more than MantissaBits bits, the top one set.
RoundNearestEven(p, e, sticky) ==
    LET drop == Len(p) - MantissaBits
        guard == p[drop]
        low == sticky \/ \E j \in 1..(drop - 1) : p[j] = 1
        q == SubSeq(p, drop + 1, Len(p))
        up == guard = 1 /\ (low \/ q[1] = 1)
        r == IF up THEN Inc(q) ELSE q
    IN  IF Len(r) > MantissaBits THEN [m |-> Tail(r), e |-> e + drop + 1]
                                 ELSE [m |-> r, e |-> e + drop]

RECURSIVE Normalise(_, _, _)
\* The least s with n * 2^s >= d, and n * 2^s
Normalise(n, d, s) == IF n >= d THEN [n |-> n, s |-> s]
                      ELSE Normalise(2 * n, d, s + 1)

RECURSIVE DivLoop(_, _, _, _)
\* k more quotient bits of r / d, most significant first
DivLoop(r, d, k, acc) ==
    IF k = 0 THEN [bits |-> acc, rem |-> r]
    ELSE LET r2 == 2 * r
             b == IF r2 >= d THEN 1 ELSE 0
         IN  DivLoop(r2 - b * d, d, k - 1, Append(acc, b))

\* The float the decimal fraction num/den (0 <= num <= den) reads as: the
\* value of percent_finished as it reaches the transform, and float() of it.
FloatOf(v) ==
    IF v.num = 0 THEN [m |-> <<>>, e |-> 0]
    ELSE LET nz == Normalise(v.num, v.den, 0)
             dv == DivLoop(nz.n - v.den, v.den, MantissaBits, <<1>>)
         IN  RoundNearestEven(Reverse(dv.bits), 0 - nz.s - MantissaBits,
                              dv.rem # 0)

\* x * 100 in float arithmetic (100 = 64 + 32 + 4)
FloatTimes100(x) ==
    IF x.m = <<>> THEN x
    ELSE LET exact == AddBits(AddBits(ShiftLeft(x.m, 6), ShiftLeft(x.m, 5), 0),
                              ShiftLeft(x.m, 2), 0)
         IN  RoundNearestEven(exact, x.e, FALSE)

\* math.floor of a float x with 0 <= x < 2^31
MathFloor(x) == IF x.e >= 0 THEN ToInt(ShiftLeft(x.m, x.e))
                ELSE ToInt(ShiftRight(x.m, 0 - x.e))

\* COLUMNS[column_percent_read_int]['transform']
PercentReadIntTransform(v) == MathFloor(FloatTimes100(FloatOf(v)))

RECURSIVE Pow10(_)
Pow10(k) == IF k = 0 THEN 1 ELSE 10 * Pow10(k - 1)

\* percent_finished values: the decimal fractions in 0..1 with up to
\* MaxDecimals digits
Fractions ==
    UNION {{[num |-> n, den |-> Pow10(k)] : n \in 0..Pow10(k)} : k \in 1..MaxDecimals}

-----------------------------------------------------------------------------
(* Operations *)

\* The stored entries of a fresh installation, and those an earlier version of
\* the plugin (which still had column_highlights) left behind.
NeverConfigured == [k \in {} |-> ""]

EarlierConfig ==
    [k \in {"column_highlights", "column_status"} |->
        IF k = "column_highlights" THEN "#b" ELSE "#a"]

NoValue == [num |-> 0, den |-> 0]

\* A previously stored entry for every field, all naming the same column.
AllOnOneColumn == [n \in FieldNames |-> "#a"]

NoColumns == [k \in {} |-> HostColumn(k, "text", FALSE)]

\* A library with a text column and a custom rating column.
Library ==
    [k \in {"#a", "#b"} |->
        IF k = "#a" THEN HostColumn(k, "text", FALSE)
                    ELSE HostColumn(k, "rating", FALSE)]

\* The plugin's own state after module load, before any editor exists.
InitPlugin ==
    /\ COLUMNS = COLUMNS_AtLoad
    /\ combos = [e \in {} |-> <<>>]
    /\ status = [e \in {} |-> "open"]
    /\ raised = FALSE
    /\ saver = 0
    /\ saved = <<>>
    /\ fresh = 0
    /\ nSelects = 0
    /\ nHostChanges = 0
    /\ nSaves = 0

Init ==
    /\ custom_columns = Library
    /\ CONFIG = EarlierConfig
    /\ InitPlugin
    /\ value = NoValue
    /\ stored = -1

\* The host adds a custom column.
HostAddColumn ==
    /\ nHostChanges < MaxHostChanges
    /\ \E k \in Keys \ DOMAIN custom_columns, t \in HostDatatypes, m \in BOOLEAN :
          custom_columns' = [x \in DOMAIN custom_columns \cup {k} |->
                                IF x = k THEN HostColumn(k, t, m)
                                         ELSE custom_columns[x]]
    /\ nHostChanges' = nHostChanges + 1
    /\ fresh' = 0
    /\ UNCHANGED <<CONFIG, COLUMNS, combos, status, raised, saver, saved,
                   nSelects, nSaves, value, stored>>

\* The host deletes a custom column.
HostDeleteColumn ==
    /\ nHostChanges < MaxHostChanges
    /\ \E k \in DOMAIN custom_columns :
          custom_columns' = [x \in DOMAIN custom_columns \ {k} |-> custom_columns[x]]
    /\ nHostChanges' = nHostChanges + 1
    /\ fresh' = 0
    /\ UNCHANGED <<CONFIG, COLUMNS, combos, status, raised, saver, saved,
                   nSelects, nSaves, value, stored>>

RECURSIVE PersistLoop(_, _, _)
\* Writes the key each new combo shows back into the stored entries.
PersistLoop(i, cfg, row_combos) ==
    IF i > Len(row_combos) THEN cfg
    ELSE PersistLoop(i + 1,
                     ConfigSet(cfg, COLUMNS_AtLoad[i].name, GetSelectedColumn(row_combos[i])),
                     row_combos)

\* An editor construction that persists what its combos fell back to
ConstructPersisting ==
    LET e == Cardinality(DOMAIN status) + 1
        available_columns == AvailableColumns(custom_columns)
        row_combos == [i \in 1..Len(COLUMNS) |->
                          PopulateCombo(available_columns[COLUMNS[i].type],
                                        ConfigGet(CONFIG, COLUMNS[i].name))]
    IN  /\ e <= MaxEditors
        /\ ~raised
        /\ combos' = combos @@ (e :> row_combos)
        /\ COLUMNS' = [i \in 1..Len(COLUMNS) |->
                          SetAttr(COLUMNS[i], "combo", [editor |-> e, row |-> i])]
        /\ status' = status @@ (e :> "open")
        /\ CONFIG' = PersistLoop(1, CONFIG, row_combos)
        /\ fresh' = e
        /\ UNCHANGED <<custom_columns, raised, saver, saved, nSelects,
                       nHostChanges, nSaves, value, stored>>

\* ConfigWidget.__init__ -> CustomColumnsLayout.__init__
Construct ==
    LET e == Cardinality(DOMAIN status) + 1
        available_columns == AvailableColumns(custom_columns)
        ok == \A i \in 1..Len(COLUMNS) : COLUMNS[i].type \in DOMAIN available_columns
    IN  /\ e <= MaxEditors
        /\ ~raised
        /\ IF ok
           THEN /\ combos' = combos @@ (e :>
                     [i \in 1..Len(COLUMNS) |->
                         PopulateCombo(available_columns[COLUMNS[i].type],
                                       ConfigGet(CONFIG, COLUMNS[i].name))])
                /\ COLUMNS' = [i \in 1..Len(COLUMNS) |->
                                  SetAttr(COLUMNS[i], "combo", [editor |-> e, row |-> i])]
                /\ status' = status @@ (e :> "open")
                /\ raised' = FALSE
           ELSE /\ raised' = TRUE
                /\ UNCHANGED <<combos, COLUMNS, status>>
        /\ fresh' = e
        /\ UNCHANGED <<custom_columns, CONFIG, saver, saved, nSelects,
                       nHostChanges, nSaves, value, stored>>

\* The user picks another entry in one dropdown of an open editor.
SelectOption ==
    /\ nSelects < MaxSelects
    /\ \E e \in DOMAIN status, i \in Rows :
          /\ status[e] = "open"
          /\ \E idx \in 0..(Len(combos[e][i].column_names) - 1) :
                /\ idx # combos[e][i].currentIndex
                /\ combos' = [combos EXCEPT ![e][i].currentIndex = idx]
    /\ nSelects' = nSelects + 1
    /\ fresh' = 0
    /\ UNCHANGED <<custom_columns, CONFIG, COLUMNS, status, raised, saver,
                   saved, nHostChanges, nSaves, value, stored>>

RECURSIVE SaveLoop(_, _, _, _)
\* The for loop of save_settings from row i on.
SaveLoop(i, cfg, cols, cbs) ==
    IF i > Len(cols) THEN cfg
    ELSE SaveLoop(i + 1,
                  ConfigSet(cfg, cols[i].name, GetSelectedColumn(Deref(cbs, cols[i].combo))),
                  cols, cbs)

RECURSIVE SaveLoopMerge(_, _, _, _)
\* save_settings that writes only the fields with a column selected
SaveLoopMerge(i, cfg, cols, cbs) ==
    IF i > Len(cols) THEN cfg
    ELSE LET key == GetSelectedColumn(Deref(cbs, cols[i].combo))
         IN  SaveLoopMerge(i + 1,
                           IF key = "" THEN cfg ELSE ConfigSet(cfg, cols[i].name, key),
                           cols, cbs)

SaveSettingsMerge(cfg, cols, cbs) == SaveLoopMerge(1, cfg, cols, cbs)

SaveSettings(cfg, cols, cbs) == SaveLoop(1, cfg, cols, cbs)

\* ConfigWidget.save_settings on an open editor
Save ==
    /\ nSaves < MaxSaves
    /\ ~raised
    /\ \E e \in DOMAIN status :
          /\ status[e] = "open"
          /\ saver' = e
    /\ IF \A i \in 1..Len(COLUMNS) : "combo" \in DOMAIN COLUMNS[i]
       THEN /\ CONFIG' = SaveSettings(CONFIG, COLUMNS, combos)
            /\ saved' = [i \in 1..Len(COLUMNS) |->
                            GetSelectedColumn(Deref(combos, COLUMNS[i].combo))]
            /\ raised' = FALSE
       ELSE /\ raised' = TRUE
            /\ UNCHANGED <<CONFIG, saved>>
    /\ nSaves' = nSaves + 1
    /\ fresh' = 0
    /\ UNCHANGED <<custom_columns, COLUMNS, combos, status, nSelects,
                   nHostChanges, value, stored>>

\* The host closes an editor's dialog (after a save or without one).
Close ==
    /\ \E e \in DOMAIN status :
          /\ status[e] = "open"
          /\ status' = [status EXCEPT ![e] = "closed"]
    /\ fresh' = 0
    /\ UNCHANGED <<custom_columns, CONFIG, COLUMNS, combos, raised, saver,
                   saved, nSelects, nHostChanges, nSaves, value, stored>>

\* The editors' life in one library: columns can only disappear.
Next ==
    \/ HostDeleteColumn
    \/ Construct
    \/ SelectOption
    \/ Save
    \/ Close

Spec == Init /\ [][Next]_vars

-----------------------------------------------------------------------------
(* Editors opened over every host column registry *)

InitColumns ==
    /\ custom_columns = NoColumns
    /\ CONFIG \in {NeverConfigured, EarlierConfig, AllOnOneColumn}
    /\ InitPlugin
    /\ value = NoValue
    /\ stored = -1

NextColumns ==
    \/ HostAddColumn
    \/ HostDeleteColumn
    \/ Construct

SpecColumns == InitColumns /\ [][NextColumns]_vars

-----------------------------------------------------------------------------
(* Properties *)

\* The keys the specification makes eligible for a field of type t.
EligibleKeys(cc, t) ==
    {k \in DOMAIN cc : cc[k].datatype = t /\ ~cc[k].is_multiple}
        \cup (IF t = "rating" THEN {"rating"} ELSE {})

\* The display name of the column offered under key k for a field of type t.
OfferedName(cc, t, k) ==
    IF t = "rating" /\ k = "rating" THEN orig_headers["rating"] ELSE cc[k].name

OptionKeys(c) == {c.column_names[j] : j \in 2..Len(c.column_names)}

FieldType(i) == COLUMNS_AtLoad[i].type

FieldName(i) == COLUMNS_AtLoad[i].name

\* The combo the registry holds for row i.
RegistryCombo(i) == Deref(combos, COLUMNS[i].combo)

IsSave == nSaves' = nSaves + 1

\* C1: the option list populate_combo builds for a field is "do not sync"
\* (key "") at index 0, then exactly the host columns eligible for the field's
\* type, each once, ascending by key, each shown as "name (key)";
\* column_names and the shown items run in parallel.
C1_OptionList ==
    fresh # 0 =>
        \A i \in Rows :
            LET c == combos[fresh][i]
                n == Len(c.column_names)
                eligible == EligibleKeys(custom_columns, FieldType(i))
            IN  /\ c.column_names[1] = ""
                /\ c.items[1] = "do not sync"
                /\ Len(c.items) = n
                /\ OptionKeys(c) = eligible
                /\ n = 1 + Cardinality(eligible)
                /\ \A j \in 2..(n - 1) :
                      Rank(c.column_names[j]) < Rank(c.column_names[j + 1])
                /\ \A j \in 2..n :
                      c.items[j] = DisplayName(
                          OfferedName(custom_columns, FieldType(i), c.column_names[j]),
                          c.column_names[j])

C1_Witness ==
    /\ fresh # 0
    /\ \E i \in Rows : FieldType(i) = "text" /\ Len(combos[fresh][i].column_names) = 3
    /\ \E i \in Rows : FieldType(i) = "datetime" /\ Len(combos[fresh][i].column_names) = 1

\* C2: a new editor pre-selects, for every field, the key its control showed
\* when save_settings last ran, provided that key is still eligible for the
\* field's type.
C2_RoundTrip ==
    (fresh # 0 /\ saver # 0) =>
        \A i \in Rows :
            saved[i] \in EligibleKeys(custom_columns, FieldType(i)) =>
                GetSelectedColumn(combos[fresh][i]) = saved[i]

\* A key the user selected (not one that was stored before) comes back.
C2_Witness ==
    /\ fresh # 0
    /\ saver # 0
    /\ nSelects > 0
    /\ \E i \in Rows :
          /\ saved[i] \in DOMAIN custom_columns
          /\ saved[i] # ConfigGet(EarlierConfig, FieldName(i))
          /\ saved[i] \in EligibleKeys(custom_columns, FieldType(i))
          /\ GetSelectedColumn(combos[fresh][i]) = saved[i]
          /\ combos[fresh][i].currentIndex > 0

\* C3: when the persisted key of a field is not among the columns eligible
\* for its type, a new editor shows "do not sync" (index 0, key "") for the
\* field, and constructing the editor raises nothing.
C3_StaleKeyFallsBack ==
    fresh # 0 =>
        /\ ~raised
        /\ fresh \in DOMAIN status /\ status[fresh] = "open"
        /\ \A i \in Rows :
              ConfigGet(CONFIG, FieldName(i)) \notin EligibleKeys(custom_columns, FieldType(i)) =>
                  /\ combos[fresh][i].currentIndex = 0
                  /\ GetSelectedColumn(combos[fresh][i]) = ""

\* The persisted column is there with the field's type but multi-valued,
\* next to a column that is on offer.
C3_Witness ==
    /\ fresh # 0
    /\ ~raised
    /\ \E i \in Rows :
          LET K == ConfigGet(CONFIG, FieldName(i))
          IN  /\ K # ""
              /\ K \in DOMAIN custom_columns
              /\ custom_columns[K].datatype = FieldType(i)
              /\ custom_columns[K].is_multiple
              /\ Len(combos[fresh][i].column_names) > 1
              /\ combos[fresh][i].currentIndex = 0

\* The persisted column was pre-selected by an earlier editor and has been
\* deleted since.
C3_WitnessDeleted ==
    /\ fresh # 0
    /\ \E e \in DOMAIN combos : \E i \in Rows :
          LET K == ConfigGet(CONFIG, FieldName(i))
          IN  /\ K # ""
              /\ GetSelectedColumn(combos[e][i]) = K
              /\ K \notin DOMAIN custom_columns
              /\ combos[fresh][i].currentIndex = 0

\* C4: no option list ever holds a multi-valued custom column: what a new
\* editor offers under a key (so whatever a save can read from the control) is
\* the built-in rating column or a custom column that is not multi-valued,
\* and option lists never change after construction.
C4_NoMultiValued ==
    /\ [](fresh # 0 =>
            \A i \in Rows : \A j \in 2..Len(combos[fresh][i].column_names) :
                LET k == combos[fresh][i].column_names[j]
                IN  \/ /\ FieldType(i) = "rating"
                       /\ k = "rating"
                       /\ combos[fresh][i].items[j] =
                              DisplayName(orig_headers["rating"], "rating")
                    \/ k \in DOMAIN custom_columns /\ ~custom_columns[k].is_multiple)
    /\ [][\A e \in DOMAIN combos : \A i \in Rows :
             /\ combos'[e][i].column_names = combos[e][i].column_names
             /\ combos'[e][i].items = combos[e][i].items]_vars

C4_Witness ==
    /\ fresh # 0
    /\ \E k \in DOMAIN custom_columns : \E i \in Rows :
          /\ custom_columns[k].is_multiple
          /\ custom_columns[k].datatype = FieldType(i)
          /\ k # "rating"
          /\ k \notin OptionKeys(combos[fresh][i])
    /\ \E k \in DOMAIN custom_columns :
          custom_columns[k].is_multiple /\ custom_columns[k].datatype = "rating"

\* C5: the columns available for type rating are the non-multi-valued custom
\* rating columns and one entry keyed 'rating' named by the host's built-in
\* rating header; for the other five types only custom columns of that type
\* are available, each as the host describes it.
C5_RatingBuiltin ==
    LET av == AvailableColumns(custom_columns)
        custom == {k \in DOMAIN custom_columns :
                      /\ custom_columns[k].datatype = "rating"
                      /\ ~custom_columns[k].is_multiple}
    IN  /\ DOMAIN av["rating"] = custom \cup {"rating"}
        /\ av["rating"]["rating"] = [name |-> orig_headers["rating"]]
        /\ \A k \in custom \ {"rating"} : av["rating"][k] = custom_columns[k]
        /\ \A t \in ColumnTypes \ {"rating"} : \A k \in DOMAIN av[t] :
              /\ k \in DOMAIN custom_columns
              /\ av[t][k] = custom_columns[k]
              /\ custom_columns[k].datatype = t
        /\ fresh # 0 =>
              \A i \in Rows :
                 LET c == combos[fresh][i]
                     hits == {j \in 1..Len(c.column_names) : c.column_names[j] = "rating"}
                 IN  IF FieldType(i) = "rating"
                     THEN /\ Cardinality(hits) = 1
                          /\ \A j \in hits :
                                c.items[j] = DisplayName(orig_headers["rating"], "rating")
                          /\ custom \subseteq OptionKeys(c)
                     ELSE \A j \in hits :
                             /\ "rating" \in DOMAIN custom_columns
                             /\ c.items[j] = DisplayName(custom_columns["rating"].name, "rating")

\* A custom column keyed 'rating' next to another custom rating column.
C5_Witness ==
    /\ fresh # 0
    /\ "rating" \in DOMAIN custom_columns
    /\ custom_columns["rating"].datatype = "rating"
    /\ \E k \in DOMAIN custom_columns \ {"rating"} :
          /\ custom_columns[k].datatype = "rating"
          /\ ~custom_columns[k].is_multiple
          /\ \E i \in Rows : OptionKeys(combos[fresh][i]) = {k, "rating"}

C5_WitnessNoCustom ==
    /\ fresh # 0
    /\ custom_columns = <<>>
    /\ \E i \in Rows : OptionKeys(combos[fresh][i]) = {"rating"}

\* C6: save_settings writes, for every field, the key selected in the control
\* the registry holds for the field, whatever was stored before, and leaves
\* the stored entries under all other keys as they were.
C6_SaveOverwritesEveryField ==
    [][IsSave =>
        /\ DOMAIN CONFIG' = DOMAIN CONFIG \cup FieldNames
        /\ \A i \in Rows :
              CONFIG'[FieldName(i)] = GetSelectedColumn(RegistryCombo(i))
        /\ \A k \in DOMAIN CONFIG \ FieldNames : CONFIG'[k] = CONFIG[k]]_vars

\* A save replaced the stored key of a field the user did not touch by "",
\* stored a key the user selected, and kept the entry of another key.
C6_Witness ==
    /\ saver # 0
    /\ nSelects > 0
    /\ DOMAIN CONFIG = FieldNames \cup {"column_highlights"}
    /\ CONFIG["column_highlights"] = EarlierConfig["column_highlights"]
    /\ CONFIG["column_status"] = ""
    /\ \E i \in Rows : CONFIG[FieldName(i)] # ""

\* C7: only save_settings changes the stored entries: constructing an editor,
\* selecting, closing and host changes leave them alone; a field without a
\* stored entry reads as "".
C7_OnlySaveWrites ==
    /\ [][CONFIG' # CONFIG => IsSave]_vars
    /\ [](\A n \in FieldNames \ DOMAIN CONFIG : ConfigGet(CONFIG, n) = "")

\* An editor fell back for a stale key, the user selected something and closed
\* without saving.
C7_Witness ==
    /\ nSaves = 0
    /\ nSelects > 0
    /\ CONFIG = EarlierConfig
    /\ \E e \in DOMAIN status :
          /\ status[e] = "closed"
          /\ \E i \in Rows :
                /\ FieldName(i) = "column_status"
                /\ "#a" \notin OptionKeys(combos[e][i])

\* C8: the registry is never mutated.
C8_RegistryStatic == COLUMNS = COLUMNS_AtLoad

\* C10: save_settings on editor E writes the keys selected in the controls E
\* itself built.
C10_SaveWritesOwnControls ==
    [][IsSave =>
        \A i \in Rows :
            ConfigGet(CONFIG', FieldName(i)) = GetSelectedColumn(combos[saver'][i])]_vars

-----------------------------------------------------------------------------
(* Applying the percent-read-int transform to a sidecar value *)

InitTransform ==
    /\ custom_columns = NoColumns
    /\ CONFIG = NeverConfigured
    /\ InitPlugin
    /\ value \in Fractions
    /\ stored = -1

ApplyTransform ==
    /\ stored = -1
    /\ stored' = PercentReadIntTransform(value)
    /\ fresh' = 0
    /\ UNCHANGED <<custom_columns, CONFIG, COLUMNS, combos, status, raised, saver,
                   saved, nSelects, nHostChanges, nSaves, value>>

NextTransform == ApplyTransform

SpecTransform == InitTransform /\ [][NextTransform]_vars

\* C9: the transform maps v in 0..1 to the largest integer not exceeding
\* 100 * v, an integer in 0..100 that is 100 only for v = 1.
C9_FloorOfHundredTimes ==
    stored # -1 =>
        /\ stored = (100 * value.num) \div value.den
        /\ stored \in 0..100
        /\ (stored = 100 <=> value.num = value.den)

====
